---- MODULE Spec2Model ----
(***************************************************************************)
(* quicksort_collection.cpp: sequential_quicksort and                      *)
(* naive_parallel_quicksort, run one after the other on a copy of the same *)
(* input, as main() does through test_sequential / test_naive_parallel.    *)
(*                                                                         *)
(* Iterators are positions 1..n+1 of the vector (begin = 1, end = n+1).    *)
(* Every call is a frame on the call stack of the thread that runs it; a   *)
(* frame is named by its path in the call tree (0 = left, 1 = right) and a *)
(* spawned thread by the path of the call it runs.                         *)
(***************************************************************************)
EXTENDS Integers, Sequences, FiniteSets

VARIABLES
    input,        \* the vector handed to both tests (each sorts its own copy)
    cmp,          \* the Cmp instance: "less" (std::less) or "key_less"
    pivot_func,   \* the Pivot_func: "random" or "median"
    phase,        \* which algorithm the harness is running
    arr,          \* the copy being sorted
    seq_result,   \* what sequential_quicksort left (<<>> until it returned)
    stacks,       \* thread -> its call stack (bottom first); <<>> = finished
    gen,          \* the static std::mt19937 of pivot::random
    outcome       \* how the top-level naive_parallel_quicksort call ended

vars == <<input, cmp, pivot_func, phase, arr, seq_result, stacks, gen, outcome>>

\* ---------------------------------------------------------------- bounds
MaxLen == 3
MaxVal == 2
GenPeriod == 2

\* the fork bound of naive_parallel_quicksort
DEPTH_LIMIT == 5

Values == 0..MaxVal
\* every vector of at most MaxLen values, and the first elements of main()'s
\* many_unique and random vectors
SmallInputs == UNION {[1..n -> Values] : n \in 0..MaxLen}
LongInputs == {<<1, 2, 0, 1, 0, 0, 2>>, <<8, 1, 4, 2, 6>>}
Inputs == SmallInputs \cup LongInputs
Cmps == {"less", "key_less"}
\* the long vectors are sorted with the default Cmp only
Runs == (SmallInputs \X Cmps) \cup (LongInputs \X {"less"})
PivotFuncs == {"random", "median"}
GenStates == 0..(GenPeriod - 1)

Main == <<>>

\* ------------------------------------------------------------ pure parts
\* cmp(a, b): std::less<>, or a strict weak ordering with equivalent keys
Cmp(a, b) ==
    IF cmp = "less" THEN a < b ELSE (a \div 2) < (b \div 2)

distance(first, last) == last - first

IterSwapCopy(a, i, j) == [a EXCEPT ![i] = a[j]]

\* std::iter_swap(i, j)
IterSwap(a, i, j) == [a EXCEPT ![i] = a[j], ![j] = a[i]]

\* pivot::median
median(first, last) == first + (distance(first, last) \div 2)

\* the offsets std::uniform_int_distribution<>(0, distance - 1) can return
RandomOffsets(first, last) == 0..(distance(first, last) - 1)

\* one call of the generator: its state moves on
Advance(g) == (g + 1) % GenPeriod

PartitionPredReversed(f, v) == Cmp(f.pivot_value, v)

\* the lambda handed to std::partition: cmp(val, pivot_value)
PartitionPred(f, v) == Cmp(v, f.pivot_value)

\* std::partition's inner loops (bidirectional iterators)
RECURSIVE ScanUp(_, _, _, _)
ScanUp(f, a, i, l) ==
    IF i = l THEN i
    ELSE IF PartitionPred(f, a[i]) THEN ScanUp(f, a, i + 1, l)
    ELSE i

RECURSIVE ScanDown(_, _, _, _)
ScanDown(f, a, i, j) ==
    IF i = j THEN j
    ELSE IF ~PartitionPred(f, a[j]) THEN ScanDown(f, a, i, j - 1)
    ELSE j

\* ---------------------------------------------------------------- frames
NewFrame(path, first, last, depth) ==
    [path |-> path, first |-> first, last |-> last, depth |-> depth,
     pc |-> "entry", pivot |-> 0, pivot_value |-> 0, g |-> 0,
     pf |-> 0, pl |-> 0, gtp |-> 0, forked |-> FALSE]

Threads == DOMAIN stacks
Running(t) == t \in Threads /\ stacks[t] # <<>>
Top(t) == stacks[t][Len(stacks[t])]
SetTop(t, f) == [stacks EXCEPT ![t] = [@ EXCEPT ![Len(@)] = f]]
AllFrames == UNION {{stacks[t][i] : i \in DOMAIN stacks[t]} : t \in Threads}

LeftPath(f) == Append(f.path, 0)
RightPath(f) == Append(f.path, 1)

SeqLeftLastNoPrev(f) == f.gtp

\* the sub-ranges handed to the recursive calls: std::prev(greater_than_pivot)
\* ends the left one (sequential, spawned thread, else branch) and
\* greater_than_pivot starts the right one
SeqLeftLast(f) == f.gtp - 1

ThreadLastWhole(f) == f.last

ThreadLast(f) == f.gtp - 1

ElseLeftLast(f) == f.gtp - 1

RightFirstSkip(f) == f.gtp + 1

RightFirst(f) == f.gtp

\* std::prev(greater_than_pivot), where the pivot goes

SwapBackPos(f) == f.gtp - 1

ForkAllowedOffByOne(depth) == depth <= DEPTH_LIMIT

\* if (depth < 5)
ForkAllowed(depth) == depth < DEPTH_LIMIT

JoinNoWait(t1) == TRUE

\* t1.join() returns once the thread's function has returned
JoinReady(t1) == stacks[t1] = <<>>

ResumeNoJoin(f) ==
    IF f.pc = "in_left" THEN [f EXCEPT !.pc = "call_right"]
    ELSE [f EXCEPT !.pc = "return"]

\* the caller goes on after a call it made has returned: to its second call,
\* to t1.join() if it forked, or to its end
Resume(f) ==
    IF f.pc = "in_left" THEN [f EXCEPT !.pc = "call_right"]
    ELSE IF f.forked THEN [f EXCEPT !.pc = "join"]
    ELSE [f EXCEPT !.pc = "return"]

\* the stack of a thread whose top call returns
Popped(stk) ==
    IF Len(stk) = 1 THEN <<>>
    ELSE [i \in 1..(Len(stk) - 1) |->
            IF i = Len(stk) - 1 THEN Resume(stk[i]) ELSE stk[i]]

\* a call returns: the top-level parallel call returning ends the test
ReturnFrom(t) ==
    /\ stacks' = [stacks EXCEPT ![t] = Popped(@)]
    /\ outcome' = IF t = Main /\ Len(stacks[t]) = 1 /\ phase = "naive_parallel"
                  THEN "returned" ELSE outcome
    /\ UNCHANGED <<input, cmp, pivot_func, phase, arr, seq_result, gen>>

\* ------------------------------------------------------------------ Init
Init ==
    /\ \E r \in Runs : input = r[1] /\ cmp = r[2]
    /\ pivot_func \in PivotFuncs
    /\ phase = "sequential"
    /\ arr = input
    /\ seq_result = <<>>
    /\ stacks = [t \in {Main} |-> <<NewFrame(<<>>, 1, Len(input) + 1, 0)>>]
    /\ gen = 0
    /\ outcome = "running"

Live(t) == outcome = "running" /\ Running(t)

\* --------------------------------------------------------------- actions
\* if (std::distance(first, last) < 2) return;
EarlyReturn(t) ==
    /\ Live(t)
    /\ Top(t).pc = "entry"
    /\ distance(Top(t).first, Top(t).last) < 2
    /\ ReturnFrom(t)

\* auto pivot = pivot_func(first, last) with pivot::median
PivotMedian(t) ==
    /\ Live(t)
    /\ Top(t).pc = "entry"
    /\ distance(Top(t).first, Top(t).last) >= 2
    /\ pivot_func = "median"
    /\ stacks' = SetTop(t, [Top(t) EXCEPT !.pc = "swap",
                                          !.pivot = median(Top(t).first, Top(t).last)])
    /\ UNCHANGED <<input, cmp, pivot_func, phase, arr, seq_result, gen, outcome>>

InRandom(t) == Running(t) /\ Top(t).pc = "random"

RandomEnterLocked(t) ==
    /\ Live(t)
    /\ Top(t).pc = "entry"
    /\ distance(Top(t).first, Top(t).last) >= 2
    /\ pivot_func = "random"
    /\ \A u \in Threads \ {t} : ~InRandom(u)
    /\ stacks' = SetTop(t, [Top(t) EXCEPT !.pc = "random", !.g = gen])
    /\ UNCHANGED <<input, cmp, pivot_func, phase, arr, seq_result, gen, outcome>>

\* pivot::random is entered and dis(g) reads the static generator: nothing
\* keeps a second thread out
RandomEnter(t) ==
    /\ Live(t)
    /\ Top(t).pc = "entry"
    /\ distance(Top(t).first, Top(t).last) >= 2
    /\ pivot_func = "random"
    /\ stacks' = SetTop(t, [Top(t) EXCEPT !.pc = "random", !.g = gen])
    /\ UNCHANGED <<input, cmp, pivot_func, phase, arr, seq_result, gen, outcome>>

\* dis(g) writes the generator back and pivot::random returns first + offset.
\* With another thread inside pivot::random the write is a data race: the
\* generator is left in any state.
RandomDraw(t) ==
    /\ Live(t)
    /\ Top(t).pc = "random"
    /\ \E off \in RandomOffsets(Top(t).first, Top(t).last) :
         stacks' = SetTop(t, [Top(t) EXCEPT !.pc = "swap", !.g = 0,
                                            !.pivot = Top(t).first + off])
    /\ IF \E u \in Threads \ {t} : InRandom(u)
       THEN gen' \in GenStates
       ELSE gen' = Advance(Top(t).g)
    /\ UNCHANGED <<input, cmp, pivot_func, phase, arr, seq_result, outcome>>

\* auto pivot_value = *pivot; std::iter_swap(first, pivot);
\* and std::partition(std::next(first), last, ...) starts
SwapFirst(t) ==
    /\ Live(t)
    /\ Top(t).pc = "swap"
    /\ arr' = IterSwap(arr, Top(t).first, Top(t).pivot)
    /\ stacks' = SetTop(t, [Top(t) EXCEPT !.pc = "partition", !.pivot = 0,
                                          !.pivot_value = arr[Top(t).pivot],
                                          !.pf = Top(t).first + 1,
                                          !.pl = Top(t).last])
    /\ UNCHANGED <<input, cmp, pivot_func, phase, seq_result, gen, outcome>>

\* one round of std::partition's loop that ends in std::iter_swap
PartitionSwap(t) ==
    /\ Live(t)
    /\ Top(t).pc = "partition"
    /\ LET f == Top(t)
           i == ScanUp(f, arr, f.pf, f.pl)
           j == ScanDown(f, arr, i, f.pl - 1)
       IN /\ i # f.pl
          /\ i # j
          /\ arr' = IterSwap(arr, i, j)
          /\ stacks' = SetTop(t, [f EXCEPT !.pf = i + 1, !.pl = j])
    /\ UNCHANGED <<input, cmp, pivot_func, phase, seq_result, gen, outcome>>

\* the round of std::partition's loop in which first meets last: it returns
PartitionDone(t) ==
    /\ Live(t)
    /\ Top(t).pc = "partition"
    /\ LET f == Top(t)
           i == ScanUp(f, arr, f.pf, f.pl)
       IN /\ \/ i = f.pl
             \/ i = ScanDown(f, arr, i, f.pl - 1)
          /\ stacks' = SetTop(t, [f EXCEPT !.pc = "swap_back", !.gtp = i,
                                           !.pf = 0, !.pl = 0])
    /\ UNCHANGED <<input, cmp, pivot_func, phase, arr, seq_result, gen, outcome>>

\* std::iter_swap(std::prev(greater_than_pivot), first);
SwapBack(t) ==
    /\ Live(t)
    /\ Top(t).pc = "swap_back"
    /\ arr' = IterSwap(arr, SwapBackPos(Top(t)), Top(t).first)
    /\ stacks' = SetTop(t, [Top(t) EXCEPT !.pc = "recurse"])
    /\ UNCHANGED <<input, cmp, pivot_func, phase, seq_result, gen, outcome>>

Forks(f) == phase = "naive_parallel" /\ ForkAllowed(f.depth)

\* sequential_quicksort(first, std::prev(greater_than_pivot), pivot_func, cmp);
CallLeft(t) ==
    /\ Live(t)
    /\ Top(t).pc = "recurse"
    /\ phase = "sequential"
    /\ LET f == Top(t)
       IN stacks' = [stacks EXCEPT ![t] =
              Append([@ EXCEPT ![Len(@)] = [f EXCEPT !.pc = "in_left"]],
                     NewFrame(LeftPath(f), f.first, SeqLeftLast(f), f.depth + 1))]
    /\ UNCHANGED <<input, cmp, pivot_func, phase, arr, seq_result, gen, outcome>>

\* the else branch: naive_parallel_quicksort(first, std::prev(greater_than_pivot),
\* depth+1, ...) in the calling thread
ElseCallLeft(t) ==
    /\ Live(t)
    /\ Top(t).pc = "recurse"
    /\ phase = "naive_parallel"
    /\ ~ForkAllowed(Top(t).depth)
    /\ LET f == Top(t)
       IN stacks' = [stacks EXCEPT ![t] =
              Append([@ EXCEPT ![Len(@)] = [f EXCEPT !.pc = "in_left"]],
                     NewFrame(LeftPath(f), f.first, ElseLeftLast(f), f.depth + 1))]
    /\ UNCHANGED <<input, cmp, pivot_func, phase, arr, seq_result, gen, outcome>>

\* std::thread t1([=]() { naive_parallel_quicksort(first, prev(gtp), depth+1, ...); });
Fork(t) ==
    /\ Live(t)
    /\ Top(t).pc = "recurse"
    /\ Forks(Top(t))
    /\ LET f == Top(t)
           w == LeftPath(f)
           st == SetTop(t, [f EXCEPT !.pc = "call_right", !.forked = TRUE])
       IN stacks' = [u \in Threads \cup {w} |->
                        IF u = w
                        THEN <<NewFrame(w, f.first, ThreadLast(f), f.depth + 1)>>
                        ELSE st[u]]
    /\ UNCHANGED <<input, cmp, pivot_func, phase, arr, seq_result, gen, outcome>>

\* std::thread's constructor throws std::system_error. Thrown in the
\* top-level call it leaves that call; thrown in a nested call of the main
\* thread it unwinds into a frame whose t1 is joinable, and thrown in a worker
\* it leaves the thread's function: both are std::terminate.
ForkFail(t) ==
    /\ Live(t)
    /\ Top(t).pc = "recurse"
    /\ Forks(Top(t))
    /\ outcome' = IF t = Main /\ Len(stacks[t]) = 1 THEN "exception" ELSE "terminated"
    /\ stacks' = [u \in {Main} |-> <<>>]
    /\ UNCHANGED <<input, cmp, pivot_func, phase, arr, seq_result, gen>>

\* the second recursive call, on [greater_than_pivot, last), always made in
\* the calling thread
CallRight(t) ==
    /\ Live(t)
    /\ Top(t).pc = "call_right"
    /\ LET f == Top(t)
       IN stacks' = [stacks EXCEPT ![t] =
              Append([@ EXCEPT ![Len(@)] = [f EXCEPT !.pc = "in_right"]],
                     NewFrame(RightPath(f), RightFirst(f), f.last, f.depth + 1))]
    /\ UNCHANGED <<input, cmp, pivot_func, phase, arr, seq_result, gen, outcome>>

\* t1.join();
Join(t) ==
    /\ Live(t)
    /\ Top(t).pc = "join"
    /\ LeftPath(Top(t)) \in Threads
    /\ JoinReady(LeftPath(Top(t)))
    /\ LET st == SetTop(t, [Top(t) EXCEPT !.pc = "return"])
       IN stacks' = [u \in Threads \ {LeftPath(Top(t))} |-> st[u]]
    /\ UNCHANGED <<input, cmp, pivot_func, phase, arr, seq_result, gen, outcome>>

\* the end of the function body
Return(t) ==
    /\ Live(t)
    /\ Top(t).pc = "return"
    /\ ReturnFrom(t)

\* test_sequential is through with this input; test_naive_parallel sorts
\* its own copy of it
StartParallel ==
    /\ outcome = "running"
    /\ phase = "sequential"
    /\ stacks[Main] = <<>>
    /\ phase' = "naive_parallel"
    /\ seq_result' = arr
    /\ arr' = input
    /\ stacks' = [t \in {Main} |-> <<NewFrame(<<>>, 1, Len(input) + 1, 0)>>]
    /\ UNCHANGED <<input, cmp, pivot_func, gen, outcome>>

Next ==
    \/ \E t \in Threads : EarlyReturn(t)
    \/ \E t \in Threads : PivotMedian(t)
    \/ \E t \in Threads : RandomEnter(t)
    \/ \E t \in Threads : RandomDraw(t)
    \/ \E t \in Threads : SwapFirst(t)
    \/ \E t \in Threads : PartitionSwap(t)
    \/ \E t \in Threads : PartitionDone(t)
    \/ \E t \in Threads : SwapBack(t)
    \/ \E t \in Threads : CallLeft(t)
    \/ \E t \in Threads : ElseCallLeft(t)
    \/ \E t \in Threads : Fork(t)
    \/ \E t \in Threads : ForkFail(t)
    \/ \E t \in Threads : CallRight(t)
    \/ \E t \in Threads : Join(t)
    \/ \E t \in Threads : Return(t)
    \/ StartParallel

Spec == Init /\ [][Next]_vars

\* every thread that can run is scheduled, and the harness goes on
LiveSpec == Spec /\ WF_vars(Next)

\* ------------------------------------------------------------ properties
Sorted(a) == \A i \in 1..(Len(a) - 1) : ~Cmp(a[i + 1], a[i])
Count(a, v) == Cardinality({i \in DOMAIN a : a[i] = v})
ValuesOf(a) == {a[i] : i \in DOMAIN a}
SameMultiset(a, b) ==
    /\ Len(a) = Len(b)
    /\ \A v \in ValuesOf(a) \cup ValuesOf(b) : Count(a, v) = Count(b, v)
Equivalent(x, y) == ~Cmp(x, y) /\ ~Cmp(y, x)
Positions(f) == f.first..(f.last - 1)
SeqReturned == phase = "sequential" /\ stacks[Main] = <<>>
Workers == Threads \ {Main}
\* the call is past its partition step
PostPcs == {"recurse", "in_left", "call_right", "in_right", "join", "return"}
\* the call is selecting its pivot, swapping or partitioning
ActivePcs == {"entry", "random", "swap", "partition", "swap_back"}

\* C1: when sequential_quicksort returns, and when naive_parallel_quicksort
\* started at depth 0 returns, no adjacent pair of the vector is out of
\* order: !cmp(S[i+1], S[i]) for every i.
C1_SortedOnReturn ==
    /\ SeqReturned => Sorted(arr)
    /\ phase = "naive_parallel" => Sorted(seq_result)
    /\ outcome = "returned" => Sorted(arr)

C1_Witness ==
    /\ outcome = "returned"
    /\ pivot_func = "random"
    /\ Len(input) >= 3
    /\ ~Sorted(input)

\* C2: in every state, during and after both sorts, the vector holds the
\* multiset of elements of the input.
C2_Permutation == SameMultiset(arr, input)

C2_Witness ==
    /\ arr # input
    /\ \E w \in Workers :
         /\ Running(w)
         /\ Top(w).pc = "partition"
         /\ Top(w).pf > Top(w).first + 1

\* C3: the vector naive_parallel_quicksort leaves is the vector
\* sequential_quicksort left on the same input, position by position up to
\* elements equivalent under cmp.
C3_SameResult ==
    outcome = "returned" =>
        /\ Len(arr) = Len(seq_result)
        /\ \A i \in DOMAIN arr : Equivalent(arr[i], seq_result[i])
        /\ SameMultiset(arr, seq_result)

C3_Witness ==
    /\ outcome = "returned"
    /\ arr # seq_result
    /\ arr # input

\* C4: a spawned thread that is not yet joined belongs to a call that has
\* not reached its end, and a call that forked is at its end only with its
\* thread joined and its right-hand call returned.
C4_JoinBeforeReturn ==
    /\ \A w \in Workers :
         \E f \in AllFrames :
            /\ f.forked
            /\ LeftPath(f) = w
            /\ f.pc \in {"call_right", "in_right", "join"}
    /\ \A f \in AllFrames :
         (f.forked /\ f.pc = "return") =>
            /\ LeftPath(f) \notin Threads
            /\ \A g \in AllFrames : g.path # RightPath(f)
    /\ outcome = "returned" => Workers = {}

\* a forking call at its end, while another call waits in join for a worker
\* still running (the right-hand call was first) and a third is still in
\* its right-hand call with its worker already finished (the worker was first)
C4_Witness ==
    /\ \E f \in AllFrames : f.forked /\ f.pc = "return"
    /\ \E t \in Threads :
         /\ Running(t)
         /\ Top(t).pc = "join"
         /\ Running(LeftPath(Top(t)))
    /\ \E f \in AllFrames :
         /\ f.pc = "in_right"
         /\ LeftPath(f) \in Threads
         /\ ~Running(LeftPath(f))

\* C5: two calls executing on different threads work on disjoint index
\* ranges, and every position a call touches lies in its own range.
C5_DisjointRanges ==
    /\ \A t \in Threads : \A u \in Threads \ {t} :
         (Running(t) /\ Running(u) /\ Top(t).pc \in ActivePcs /\ Top(u).pc \in ActivePcs)
            => Positions(Top(t)) \cap Positions(Top(u)) = {}
    /\ \A t \in Threads :
         Running(t) =>
            /\ Top(t).pc = "swap" => Top(t).pivot \in Positions(Top(t))
            /\ Top(t).pc = "partition" =>
                 /\ Top(t).first < Top(t).pf
                 /\ Top(t).pf <= Top(t).pl
                 /\ Top(t).pl <= Top(t).last
            /\ Top(t).pc = "swap_back" =>
                 /\ SwapBackPos(Top(t)) \in Positions(Top(t))
                 /\ Top(t).last <= Len(arr) + 1
                 /\ Top(t).first >= 1

C5_Witness ==
    \E t \in Threads : \E u \in Threads \ {t} :
        /\ Running(t)
        /\ Running(u)
        /\ Top(t).pc = "partition"
        /\ Top(u).pc = "partition"
        /\ distance(Top(t).first, Top(t).last) >= 2
        /\ distance(Top(u).first, Top(u).last) >= 2

\* C6: at most 2^DEPTH_LIMIT workers are live; every worker runs a call of
\* depth at most DEPTH_LIMIT; a call of depth >= DEPTH_LIMIT spawns no
\* thread and makes both recursive calls on its own stack.
C6_WorkerBound ==
    /\ Cardinality(Workers) <= 2 ^ DEPTH_LIMIT
    /\ \A w \in Workers : Len(w) <= DEPTH_LIMIT
    /\ \A t \in Threads : \A i \in DOMAIN stacks[t] :
         LET f == stacks[t][i]
         IN f.depth >= DEPTH_LIMIT =>
              /\ ~f.forked
              /\ f.pc \in {"in_left", "in_right"} =>
                   /\ i < Len(stacks[t])
                   /\ stacks[t][i + 1].path \in {LeftPath(f), RightPath(f)}

C6_Witness ==
    /\ phase = "naive_parallel"
    /\ \E f \in AllFrames :
         /\ f.depth >= DEPTH_LIMIT
         /\ f.pc = "in_left"
         /\ distance(f.first, f.last) >= 2

\* C7: a failed thread creation leaves the top-level naive_parallel_quicksort
\* call as an error its caller receives.
C7_FailurePropagates ==
    outcome \notin {"running", "returned"} => outcome = "exception"

\* C8: nothing guards the generator: while one thread is inside
\* pivot::random, any other thread about to select a pivot can enter it too.
C8_NoExclusion ==
    \A t \in Threads : \A u \in Threads \ {t} :
        (/\ InRandom(u)
         /\ Live(t)
         /\ Top(t).pc = "entry"
         /\ distance(Top(t).first, Top(t).last) >= 2)
            => ENABLED RandomEnter(t)

\* two sibling calls (left in the spawned thread, right in its parent's
\* thread) are inside pivot::random together
C8_Witness ==
    \E t \in Threads : \E u \in Threads \ {t} :
        /\ InRandom(t)
        /\ InRandom(u)
        /\ Len(Top(t).path) >= 1
        /\ Len(Top(t).path) = Len(Top(u).path)
        /\ SubSeq(Top(t).path, 1, Len(Top(t).path) - 1)
             = SubSeq(Top(u).path, 1, Len(Top(u).path) - 1)

\* C9 as stated: every element of the closed range [first, boundary-1]
\* compares less than the pivot value, every element of [boundary, last)
\* does not, and the pivot value is at boundary-1.
C9_PartitionPostClosed ==
    \A f \in AllFrames :
        f.pc \in PostPcs =>
            /\ \A i \in f.first..(f.gtp - 1) : Cmp(arr[i], f.pivot_value)
            /\ \A i \in f.gtp..(f.last - 1) : ~Cmp(arr[i], f.pivot_value)
            /\ arr[f.gtp - 1] = f.pivot_value

\* C9: after the partition step every element of [first, boundary-1)
\* compares less than the pivot value, every element of [boundary, last)
\* does not, and the pivot value is at boundary-1.
C9_PartitionPost ==
    \A f \in AllFrames :
        f.pc \in PostPcs =>
            /\ f.first < f.gtp
            /\ f.gtp <= f.last
            /\ \A i \in f.first..(f.gtp - 2) : Cmp(arr[i], f.pivot_value)
            /\ \A i \in f.gtp..(f.last - 1) : ~Cmp(arr[i], f.pivot_value)
            /\ arr[f.gtp - 1] = f.pivot_value

C9_Witness ==
    \E f \in AllFrames :
        /\ f.pc = "recurse"
        /\ f.first + 1 < f.gtp
        /\ f.gtp < f.last

\* every call on the stacks got a range at least one shorter than its
\* caller's
C10_Shrinks ==
    \A f \in AllFrames : \A g \in AllFrames :
        (f.path # <<>> /\ g.path = SubSeq(f.path, 1, Len(f.path) - 1))
            => distance(f.first, f.last) <= distance(g.first, g.last) - 1

\* C10: every recursive call gets a range at least one shorter than its
\* caller's, and both sorts come to an end (the parallel one starts only
\* after the sequential one has returned), the parallel one with no call
\* and no worker left when it returns.
C10_ShrinksAndTerminates ==
    /\ []C10_Shrinks
    /\ [](outcome # "running" => phase = "naive_parallel")
    /\ <>(outcome # "running")
    /\ [](outcome = "returned" => (AllFrames = {} /\ Workers = {}))

\* a call whose range is exactly one shorter than its caller's
C10_Witness ==
    \E f \in AllFrames : \E g \in AllFrames :
        /\ f.path # <<>>
        /\ g.path = SubSeq(f.path, 1, Len(f.path) - 1)
        /\ distance(g.first, g.last) >= 3
        /\ distance(f.first, f.last) = distance(g.first, g.last) - 1

====
